---- MODULE Spec2Model ----
(***************************************************************************)
(* Model of ellisto/monorepo-versioning: the version-resolution engine of  *)
(* pkg/action.go and the output writer of cmd/main.go.                     *)
(*                                                                         *)
(* Text (component names, tags, version strings, revisions) is a sequence  *)
(* of one-character strings, so that prefixing, stripping, lower-casing,   *)
(* slicing, parsing and formatting are computed as the code computes them. *)
(* Times are in milliseconds; commit and publish timestamps are whole      *)
(* seconds.                                                                *)
(***************************************************************************)
EXTENDS Integers, Sequences, FiniteSets, TLC

VARIABLES
    releases,   \* the release store, in creation order
    commits,    \* the history of the branch, oldest first
    now,        \* the clock of the release store, in seconds
    run,        \* what the last invocation read, decided and called
    output      \* what the last invocation wrote to the GITHUB_OUTPUT file

vars == <<releases, commits, now, run, output>>

----------------------------------------------------------------------------
(* Bounds of the model                                                     *)

\* commits pushed to the branch
MaxCommits == 2
\* releases in the store when the action is invoked
MaxReleases == 2
\* seconds on the clock
MaxTime == 2
\* commits after the previous release in a drawn history
MaxWindow == 2
\* the collaborator calls of one invocation that may fail
MaxCalls == 7

----------------------------------------------------------------------------
(* Go strings                                                              *)

Uppers == <<"A","B","C","D","E","F","G","H","I","J","K","L","M",
            "N","O","P","Q","R","S","T","U","V","W","X","Y","Z">>
Lowers == <<"a","b","c","d","e","f","g","h","i","j","k","l","m",
            "n","o","p","q","r","s","t","u","v","w","x","y","z">>
Digits == <<"0","1","2","3","4","5","6","7","8","9">>

UpperSet == {Uppers[i] : i \in 1..26}
LowerSet == {Lowers[i] : i \in 1..26}
DigitSet == {Digits[i] : i \in 1..10}

IsUpper(c) == c \in UpperSet
IsLower(c) == c \in LowerSet
IsDigit(c) == c \in DigitSet

LowerOf == [c \in UpperSet |-> Lowers[CHOOSE i \in 1..26 : Uppers[i] = c]]

ToLowerChar(c) == IF IsUpper(c) THEN LowerOf[c] ELSE c

\* strings.ToLower
ToLower(s) == [i \in 1..Len(s) |-> ToLowerChar(s[i])]

\* strings.EqualFold
EqualFold(s, t) ==
    /\ Len(s) = Len(t)
    /\ \A i \in 1..Len(s) : ToLowerChar(s[i]) = ToLowerChar(t[i])

\* strings.HasPrefix
HasPrefix(s, prefix) ==
    /\ Len(prefix) <= Len(s)
    /\ SubSeq(s, 1, Len(prefix)) = prefix

\* strings.TrimPrefix
TrimPrefix(s, prefix) ==
    IF HasPrefix(s, prefix) THEN SubSeq(s, Len(prefix) + 1, Len(s)) ELSE s

\* the position of the first c in s, or 0
RECURSIVE IndexFrom(_, _, _)
IndexFrom(s, c, i) ==
    IF i > Len(s) THEN 0
    ELSE IF s[i] = c THEN i
    ELSE IndexFrom(s, c, i + 1)

Index(s, c) == IndexFrom(s, c, 1)

\* strconv.ParseInt of a run of decimal digits
ValueOf == [c \in DigitSet |-> (CHOOSE i \in 1..10 : Digits[i] = c) - 1]

DigitValue(c) == ValueOf[c]

RECURSIVE Atoi(_)
Atoi(s) ==
    IF s = <<>> THEN 0
    ELSE 10 * Atoi(SubSeq(s, 1, Len(s) - 1)) + DigitValue(s[Len(s)])

\* the %d verb of fmt.Sprintf
RECURSIVE Itoa(_)
Itoa(n) ==
    IF n < 10 THEN <<Digits[n + 1]>>
    ELSE Itoa(n \div 10) \o <<Digits[(n % 10) + 1]>>

----------------------------------------------------------------------------
(* github.com/Masterminds/semver, as far as action.go uses it              *)

NoVersion == [none |-> TRUE]

IsIdentChar(c) == IsDigit(c) \/ IsLower(c) \/ IsUpper(c) \/ c = "-"

\* [0-9A-Za-z\-]+(\.[0-9A-Za-z\-]+)* : dot-separated non-empty identifiers
IsIdentList(s) ==
    /\ s # <<>>
    /\ \A i \in 1..Len(s) : IsIdentChar(s[i]) \/ s[i] = "."
    /\ s[1] # "."
    /\ s[Len(s)] # "."
    /\ \A i \in 1..(Len(s) - 1) : ~(s[i] = "." /\ s[i + 1] = ".")

\* the length of the run of digits at the head of s
RECURSIVE DigitRun(_)
DigitRun(s) ==
    IF s # <<>> /\ IsDigit(s[1]) THEN 1 + DigitRun(Tail(s)) ELSE 0

Drop(s, n) == SubSeq(s, n + 1, Len(s))

\* the optional group (\.[0-9]+)? : the digits taken and the text left
DotNumber(s) ==
    IF Len(s) >= 2 /\ s[1] = "." /\ IsDigit(s[2])
    THEN [digits |-> SubSeq(s, 2, 1 + DigitRun(Tail(s))),
          rest   |-> Drop(s, 1 + DigitRun(Tail(s)))]
    ELSE [digits |-> <<>>, rest |-> s]

\* the tail (-pre)?(\+meta)?$ of the version pattern
ParseSuffix(s) ==
    LET plus    == Index(s, "+")
        head    == IF plus = 0 THEN s ELSE SubSeq(s, 1, plus - 1)
        meta    == IF plus = 0 THEN <<>> ELSE Drop(s, plus)
        pre     == IF head = <<>> THEN <<>> ELSE Tail(head)
        headOk  == head = <<>> \/ (head[1] = "-" /\ IsIdentList(pre))
        metaOk  == plus = 0 \/ IsIdentList(meta)
    IN  [ok |-> headOk /\ metaOk, pre |-> pre, metadata |-> meta]

\* semver.NewVersion: v?MAJOR(.MINOR)?(.PATCH)?(-PRE)?(+META)?
NewVersion(str) ==
    LET s0     == IF str # <<>> /\ str[1] = "v" THEN Tail(str) ELSE str
        n1     == DigitRun(s0)
        second == DotNumber(Drop(s0, n1))
        third  == DotNumber(second.rest)
        suffix == ParseSuffix(third.rest)
    IN  IF n1 = 0 \/ ~suffix.ok
        THEN [ok |-> FALSE, version |-> NoVersion]
        ELSE [ok |-> TRUE,
              version |-> [major    |-> Atoi(SubSeq(s0, 1, n1)),
                           minor    |-> Atoi(second.digits),
                           patch    |-> Atoi(third.digits),
                           pre      |-> suffix.pre,
                           metadata |-> suffix.metadata]]

\* Version.String
VersionString(v) ==
    Itoa(v.major) \o <<".">> \o Itoa(v.minor) \o <<".">> \o Itoa(v.patch)
      \o (IF v.pre = <<>> THEN <<>> ELSE <<"-">> \o v.pre)
      \o (IF v.metadata = <<>> THEN <<>> ELSE <<"+">> \o v.metadata)

\* Version.IncMajor
IncMajor(v) ==
    [major |-> v.major + 1, minor |-> 0, patch |-> 0,
     pre |-> <<>>, metadata |-> <<>>]

\* Version.IncMinor
IncMinor(v) ==
    [major |-> v.major, minor |-> v.minor + 1, patch |-> 0,
     pre |-> <<>>, metadata |-> <<>>]

\* Version.IncPatch: a version with a prerelease label keeps its patch number
IncPatch(v) ==
    [major |-> v.major, minor |-> v.minor,
     patch |-> IF v.pre # <<>> THEN v.patch ELSE v.patch + 1,
     pre |-> <<>>, metadata |-> <<>>]

\* Version.SetPrerelease
SetPrerelease(v, pre) ==
    IF Len(pre) > 0 /\ ~IsIdentList(pre)
    THEN [ok |-> FALSE, version |-> v]
    ELSE [ok |-> TRUE, version |-> [v EXCEPT !.pre = pre]]

----------------------------------------------------------------------------
(* github.com/leodido/go-conventionalcommits, as far as action.go uses it. *)
(* A commit message is a sequence of tokens: the type word, "(", the       *)
(* characters of the scope, ")", "!", ":", " ", the words of the           *)
(* description, and for a footer "\n\n", "BREAKING CHANGE", ":", " ", text.*)

\* conventionalcommits.TypesConventional
TypesConventional ==
    {"build", "ci", "chore", "docs", "feat", "fix", "perf", "refactor",
     "revert", "style", "test"}

NoCommit == [none |-> TRUE]

\* the text before the footers
Summary(message) ==
    LET cut == Index(message, "\n\n")
    IN  IF cut = 0 THEN message ELSE SubSeq(message, 1, cut - 1)

Footers(message) ==
    LET cut == Index(message, "\n\n")
    IN  IF cut = 0 THEN <<>> ELSE Drop(message, cut)

\* parser.Machine.Parse with WithTypes(TypesConventional), no best effort
Parse(message) ==
    LET line      == Summary(message)
        typeOk    == line # <<>> /\ line[1] \in TypesConventional
        afterType == IF line = <<>> THEN <<>> ELSE Tail(line)
        hasScope  == afterType # <<>> /\ afterType[1] = "("
        close     == Index(afterType, ")")
        scope     == IF hasScope /\ close > 2
                     THEN SubSeq(afterType, 2, close - 1) ELSE <<>>
        scopeOk   == ~hasScope
                       \/ (close > 2 /\ \A i \in 1..Len(scope) :
                                          scope[i] \notin {"(", ")", ":", " "})
        afterScope == IF hasScope /\ close > 0
                      THEN Drop(afterType, close) ELSE afterType
        exclamation == afterScope # <<>> /\ afterScope[1] = "!"
        afterMark == IF exclamation THEN Tail(afterScope) ELSE afterScope
        sepOk     == Len(afterMark) >= 3
                       /\ afterMark[1] = ":" /\ afterMark[2] = " "
        footers   == Footers(message)
        footerOk  == footers = <<>>
                       \/ (Len(footers) >= 4 /\ footers[2] = ":"
                             /\ footers[3] = " ")
    IN  IF typeOk /\ scopeOk /\ sepOk /\ footerOk
        THEN [ok |-> TRUE,
              commit |-> [type |-> line[1],
                          hasScope |-> hasScope,
                          scope |-> scope,
                          exclamation |-> exclamation,
                          breakingFooter |->
                              footers # <<>> /\ footers[1] = "BREAKING CHANGE",
                          description |-> Drop(afterMark, 2)]]
        ELSE [ok |-> FALSE, commit |-> NoCommit]

\* ConventionalCommit.IsBreakingChange
IsBreakingChange(c) == c.exclamation \/ c.breakingFooter

\* ConventionalCommit.IsFeat
IsFeat(c) == c.type = "feat"

\* ConventionalCommit.IsFix
IsFix(c) == c.type = "fix"

----------------------------------------------------------------------------
(* pkg/action.go: the pure part                                            *)

getComponentPrefix(component) == ToLower(component) \o <<"-">>

prefixWithComponent(component, str) == getComponentPrefix(component) \o str

\* the scope compared with == instead of strings.EqualFold
RECURSIVE convertAndFilterExactScope(_, _)
convertAndFilterExactScope(component, cs) ==
    IF cs = <<>> THEN <<>>
    ELSE LET parsed == Parse(cs[1].message)
             rest   == convertAndFilterExactScope(component, Tail(cs))
         IN  IF ~parsed.ok THEN rest
             ELSE IF ~parsed.commit.hasScope THEN rest
             ELSE IF parsed.commit.scope = component
                  THEN <<parsed.commit>> \o rest
             ELSE rest

\* the loop of convertAndFilterCommitsForComponent, one commit at a time
RECURSIVE convertAndFilterCommitsForComponent(_, _)
convertAndFilterCommitsForComponent(component, cs) ==
    IF cs = <<>> THEN <<>>
    ELSE LET parsed == Parse(cs[1].message)
             rest   == convertAndFilterCommitsForComponent(component, Tail(cs))
         IN  IF ~parsed.ok THEN rest
             ELSE IF ~parsed.commit.hasScope THEN rest
             ELSE IF EqualFold(parsed.commit.scope, component)
                  THEN <<parsed.commit>> \o rest
             ELSE rest

\* the releases filterAndSortReleasesForComponent keeps, in input order
RECURSIVE matchingReleases(_, _)
matchingReleases(component, rs) ==
    IF rs = <<>> THEN <<>>
    ELSE IF HasPrefix(ToLower(rs[1].tag), getComponentPrefix(component))
         THEN <<rs[1]>> \o matchingReleases(component, Tail(rs))
         ELSE matchingReleases(component, Tail(rs))

\* the orders of 1..n
Orders(n) ==
    {p \in [1..n -> 1..n] : \A i, j \in 1..n : i # j => p[i] # p[j]}

\* sort.Slice is not stable: any order that is descending by publish second
\* is a possible result
filterAndSortReleasesForComponent(component, rs) ==
    LET matching == matchingReleases(component, rs)
        n        == Len(matching)
    IN  {[i \in 1..n |-> matching[p[i]]] :
            p \in {q \in Orders(n) :
                     \A i \in 1..(n - 1) :
                        ~(matching[q[i + 1]].publishedAt
                            > matching[q[i]].publishedAt)}}

\* existingVersionOrNew; semver.MustParse panics on a malformed string
existingVersionOrNew(component, existingReleases, initialVersion) ==
    IF Len(existingReleases) = 0
    THEN LET parsed == NewVersion(initialVersion)
         IN  [panic |-> ~parsed.ok, version |-> parsed.version,
              firstVersion |-> TRUE]
    ELSE LET latestRelease == existingReleases[1]
             latestReleaseVersion ==
                 TrimPrefix(latestRelease.tag, getComponentPrefix(component))
             parsed == NewVersion(latestReleaseVersion)
         IN  [panic |-> ~parsed.ok, version |-> parsed.version,
              firstVersion |-> FALSE]

NoFlags ==
    [breakingChangesFound |-> FALSE, featureChangesFound |-> FALSE,
     fixChangesFound |-> FALSE]

\* the scan of newVersion: it stops at the first breaking change
RECURSIVE scanCommits(_, _)
scanCommits(newCommits, found) ==
    IF newCommits = <<>> THEN found
    ELSE LET commit == newCommits[1]
         IN  IF IsBreakingChange(commit)
             THEN [found EXCEPT !.breakingChangesFound = TRUE]
             ELSE scanCommits(Tail(newCommits),
                     [found EXCEPT
                        !.featureChangesFound = @ \/ IsFeat(commit),
                        !.fixChangesFound = @ \/ IsFix(commit)])

\* the increments tried in the wrong order
bumpOfPatchFirst(found) ==
    IF found.fixChangesFound THEN "PATCH"
    ELSE IF found.featureChangesFound THEN "MINOR"
    ELSE IF found.breakingChangesFound THEN "MAJOR"
    ELSE "NONE"

\* any commit of the component counted as a fix
bumpOfNeverNone(found) ==
    IF found.breakingChangesFound THEN "MAJOR"
    ELSE IF found.featureChangesFound THEN "MINOR"
    ELSE "PATCH"

\* which increment newVersion applies
bumpOf(found) ==
    IF found.breakingChangesFound THEN "MAJOR"
    ELSE IF found.featureChangesFound THEN "MINOR"
    ELSE IF found.fixChangesFound THEN "PATCH"
    ELSE "NONE"

\* the whole revision taken as the label
withPrereleaseWhole(a, version) ==
    IF a.branch # a.defaultBranch
    THEN LET set == SetPrerelease(version, a.revision)
         IN  [panic |-> ~set.ok,
              version |-> IF set.ok THEN set.version ELSE NoVersion]
    ELSE [panic |-> FALSE, version |-> version]

\* a.revision[:7] panics on a shorter revision
withPrerelease(a, version) ==
    IF a.branch # a.defaultBranch
    THEN IF Len(a.revision) < 7
         THEN [panic |-> TRUE, version |-> NoVersion]
         ELSE LET set == SetPrerelease(version, SubSeq(a.revision, 1, 7))
              IN  [panic |-> ~set.ok,
                   version |-> IF set.ok THEN set.version ELSE NoVersion]
    ELSE [panic |-> FALSE, version |-> version]

\* the commits scanned on a first creation too
newVersionAlwaysScans(a, currentVersion, newCommits, firstVersionCreated) ==
    LET bump == bumpOf(scanCommits(newCommits, NoFlags))
        nextVersion ==
            IF bump = "MAJOR" THEN IncMajor(currentVersion)
            ELSE IF bump = "MINOR" THEN IncMinor(currentVersion)
            ELSE IF bump = "PATCH" THEN IncPatch(currentVersion)
            ELSE IF firstVersionCreated THEN currentVersion
            ELSE NoVersion
    IN  IF nextVersion = NoVersion
        THEN [bump |-> bump, panic |-> FALSE, version |-> NoVersion]
        ELSE LET next == withPrerelease(a, nextVersion)
             IN  [bump |-> IF firstVersionCreated THEN "FIRST" ELSE bump,
                  panic |-> next.panic, version |-> next.version]

\* VersioningAction.newVersion
newVersion(a, currentVersion, newCommits, firstVersionCreated) ==
    IF firstVersionCreated
    THEN LET first == withPrerelease(a, currentVersion)
         IN  [bump |-> "FIRST", panic |-> first.panic,
              version |-> first.version]
    ELSE LET bump == bumpOf(scanCommits(newCommits, NoFlags))
             nextVersion ==
                 IF bump = "MAJOR" THEN IncMajor(currentVersion)
                 ELSE IF bump = "MINOR" THEN IncMinor(currentVersion)
                 ELSE IF bump = "PATCH" THEN IncPatch(currentVersion)
                 ELSE NoVersion
         IN  IF nextVersion = NoVersion
             THEN [bump |-> bump, panic |-> FALSE, version |-> NoVersion]
             ELSE LET next == withPrerelease(a, nextVersion)
                  IN  [bump |-> bump, panic |-> next.panic,
                       version |-> next.version]

----------------------------------------------------------------------------
(* generateReleaseNotes: the text is a sequence of tokens, a heading, a    *)
(* caption and each fixed part of an entry being one token                 *)

templateCaption ==
    "> Below is the changelog for this version. Changes are categorised by the type of change (breaking change, new feature, or bugfix). If there isn't a heading for a type of change, there were no relevant changes."

breakingHeading == "### :hammer: Breaking Changes\n"
breakingCaption ==
    "_Breaking changes indicate that an existing behaviour or feature no longer works as before. Pay close attention to any listed breaking changes, and make sure they are acknowledged or mitigated before deploying this version._\n"

featuresHeading == "### :bulb: Features\n"
featuresCaption ==
    "_Feature changes contain some new functionality. Existing behaviour should not be affected._\n"

fixesHeading == "### :construction_worker: Fixes\n"
fixesCaption ==
    "_Fixes some unintended behaviour from a previous version. You should familiarise yourself with these changes to understand any problems you may have experienced in previous versions._\n"

contributorsHeading == "### :heart_eyes: Contributors\n"
contributorsCaption ==
    "_These people contributed to this version of the component - thank you! Note: GitHub's auto-generated contributor list may also include contributors to other components._\n"

\* commit.GetHTMLURL
GetHTMLURL(commit) == <<"https://github.com/o/r/commit/">> \o commit.sha

\* commit.GetAuthor().GetLogin(): the commits of the model have no GitHub
\* author, and the getters give the empty string for a nil author
GetLogin(commit) == SubSeq(commit.sha, 1, 0)

\* formatCommitChangelogEntry; the grave accents around the hash are written
\* as apostrophes
formatCommitChangelogEntry(commit, conventionalCommit) ==
    IF commit.sha # <<>>
    THEN <<"* ['">> \o SubSeq(commit.sha, 1, 7) \o <<"'](">>
           \o GetHTMLURL(commit) \o <<") ">>
           \o conventionalCommit.description
           \o <<" (@">> \o GetLogin(commit) \o <<")\n">>
    ELSE <<"* [">> \o GetHTMLURL(commit) \o <<"](">>
           \o conventionalCommit.description
           \o <<") (@">> \o GetLogin(commit) \o <<")\n">>

\* the builders after their headings and captions, and the contributors map
NoEntries ==
    [breaking |-> <<>>, features |-> <<>>, fixes |-> <<>>,
     contributors |-> <<>>, seen |-> {}]

\* lines 333-348: the three tests, one after the other, and the contributor
writeEntries(entry, c, login, acc) ==
    [breaking |-> IF IsBreakingChange(c)
                  THEN acc.breaking \o entry ELSE acc.breaking,
     features |-> IF IsFeat(c) THEN acc.features \o entry ELSE acc.features,
     fixes    |-> IF IsFix(c) THEN acc.fixes \o entry ELSE acc.fixes,
     contributors |-> IF login \in acc.seen THEN acc.contributors
                      ELSE acc.contributors \o <<"* @">> \o login \o <<"\n">>,
     seen |-> acc.seen \cup {login}]

\* lines 315-331: the commits the loop passes over
writeCommit(component, commit, parsed, acc) ==
    IF ~parsed.ok THEN acc
    ELSE IF ~parsed.commit.hasScope THEN acc
    ELSE IF ~EqualFold(parsed.commit.scope, component) THEN acc
    ELSE writeEntries(formatCommitChangelogEntry(commit, parsed.commit),
                      parsed.commit, GetLogin(commit), acc)

\* the loop of generateReleaseNotes
RECURSIVE writeCommits(_, _, _)
writeCommits(component, cs, acc) ==
    IF cs = <<>> THEN acc
    ELSE writeCommits(component, Tail(cs),
                      writeCommit(component, cs[1], Parse(cs[1].message),
                                  acc))

\* the section put in the template whether or not anything was written
sectionAlways(heading, caption, entries) ==
    <<heading, caption>> \o entries

\* lines 351-373: a builder no longer than its heading and caption leaves
\* the empty string in the template
sectionOf(heading, caption, entries) ==
    IF Len(<<heading, caption>> \o entries) = Len(<<heading, caption>>)
    THEN <<>>
    ELSE <<heading, caption>> \o entries

\* the template with its four places filled
fillTemplate(acc) ==
    <<"\n", templateCaption, "\n">>
      \o sectionOf(breakingHeading, breakingCaption, acc.breaking) \o <<"\n">>
      \o sectionOf(featuresHeading, featuresCaption, acc.features) \o <<"\n">>
      \o sectionOf(fixesHeading, fixesCaption, acc.fixes) \o <<"\n">>
      \o sectionOf(contributorsHeading, contributorsCaption,
                   acc.contributors) \o <<"\n">>

\* VersioningAction.generateReleaseNotes
generateReleaseNotes(a, cs) ==
    fillTemplate(writeCommits(a.component, cs, NoEntries))

----------------------------------------------------------------------------
(* The collaborators: the GitHub release store and commit history          *)

Millisecond == 1
Second == 1000
\* time.Date(1970, time.January, 1, 0, 0, 0, 0, time.UTC)
startOfEpoch == 0

\* PerPage of the list options
PerPage == 100

Min(x, y) == IF x < y THEN x ELSE y

\* the page loop of getAllReleases and getNewCommits: pages are fetched
\* until one comes back empty; the call numbered failAt returns an error
RECURSIVE listPages(_, _, _, _, _)
listPages(all, page, calls, name, failAt) ==
    LET attempt == Append(calls, name)
        items   == SubSeq(all, (page - 1) * PerPage + 1,
                          Min(page * PerPage, Len(all)))
    IN  IF Len(attempt) = failAt
        THEN [panic |-> TRUE, calls |-> attempt, items |-> <<>>]
        ELSE IF Len(items) = 0
        THEN [panic |-> FALSE, calls |-> attempt, items |-> <<>>]
        ELSE LET more == listPages(all, page + 1, attempt, name, failAt)
             IN  [panic |-> more.panic, calls |-> more.calls,
                  items |-> items \o more.items]

\* VersioningAction.getAllReleases
getAllReleases(store, calls, failAt) ==
    listPages(store, 1, calls, "ListReleases", failAt)

\* Repositories.ListCommits: the commits of the branch whose committer time
\* is in [since, until), newest first
RECURSIVE commitsBetween(_, _, _)
commitsBetween(history, since, until) ==
    IF history = <<>> THEN <<>>
    ELSE LET c == history[Len(history)]
             older == commitsBetween(SubSeq(history, 1, Len(history) - 1),
                                     since, until)
         IN  IF since <= c.time * Second /\ c.time * Second < until
             THEN <<c>> \o older ELSE older

\* the second not added to the previous change time
sinceOfPrevious(previousChangeTime) ==
    IF previousChangeTime = -1 THEN startOfEpoch
    ELSE previousChangeTime

\* the bounds getNewCommits passes to ListCommits
sinceOf(previousChangeTime) ==
    IF previousChangeTime = -1 THEN startOfEpoch
    ELSE previousChangeTime + Second

\* VersioningAction.getNewCommits
getNewCommits(history, since, until, calls, failAt) ==
    listPages(commitsBetween(history, sinceOf(since), until), 1, calls,
              "ListCommits", failAt)

\* Git.GetCommit: the commit a revision names, by its hash or by a prefix
\* of its hash that no other commit shares; an error otherwise
GetCommit(history, revision, calls, failAt) ==
    LET attempt == Append(calls, "GetCommit")
        found   == {i \in 1..Len(history) :
                       revision # <<>> /\ HasPrefix(history[i].sha, revision)}
    IN  IF Len(attempt) = failAt \/ Cardinality(found) # 1
        THEN [panic |-> TRUE, calls |-> attempt, time |-> -1]
        ELSE [panic |-> FALSE, calls |-> attempt,
              time |-> history[CHOOSE i \in found : TRUE].time * Second]

\* VersioningAction.getCurrentChangeTime
getCurrentChangeTime(a, history, calls, failAt) ==
    GetCommit(history, a.revision, calls, failAt)

\* VersioningAction.getPreviousChangeTime; -1 stands for the nil time
getPreviousChangeTime(existingReleases, history, calls, failAt) ==
    IF Len(existingReleases) = 0
    THEN [panic |-> FALSE, calls |-> calls, time |-> -1]
    ELSE GetCommit(history, existingReleases[1].target, calls, failAt)

\* the release createGitHubRelease asks for
releaseFor(a, version, clock) ==
    [tag         |-> ToLower(prefixWithComponent(a.component,
                                                 VersionString(version))),
     target      |-> a.revision,
     prerelease  |-> a.branch # a.defaultBranch,
     publishedAt |-> clock]

\* Repositories.CreateRelease: the call numbered failAt returns an error,
\* and the store refuses a tag it already holds
CreateRelease(release, store, calls, failAt) ==
    IF Len(calls) + 1 = failAt
         \/ \E i \in 1..Len(store) : store[i].tag = release.tag
    THEN [panic |-> TRUE, calls |-> Append(calls, "CreateRelease"),
          store |-> store]
    ELSE [panic |-> FALSE, calls |-> Append(calls, "CreateRelease"),
          store |-> Append(store, release)]

\* VersioningAction.createGitHubRelease: the release notes are generated,
\* then the release is asked for
createGitHubRelease(a, version, store, clock, calls, failAt) ==
    CreateRelease(releaseFor(a, version, clock), store, calls, failAt)

----------------------------------------------------------------------------
(* VersioningAction.GenerateVersion, statement by statement; each operator *)
(* takes the record of the invocation so far and the value just computed.  *)

\* the record of an invocation before it has done anything
blankRun(a, dryRun) ==
    [a |-> a, dryRun |-> dryRun, calls |-> <<>>, fatal |-> "",
     existingReleases |-> <<>>, firstVersionCreated |-> FALSE,
     existingVersion |-> NoVersion, since |-> -1, until |-> -1,
     newCommits |-> <<>>, componentConventionalCommits |-> <<>>,
     bump |-> "", newVersion |-> NoVersion, returned |-> FALSE,
     notes |-> FALSE, releaseNotes |-> <<>>, created |-> FALSE]

\* a panic: the invocation ends and the store is as it was
panicked(r, calls, fatal, store) ==
    [run |-> [r EXCEPT !.calls = calls, !.fatal = fatal], store |-> store]

\* line 79-80 after createGitHubRelease
released(r, made, store) ==
    IF made.panic
    THEN panicked([r EXCEPT !.notes = TRUE], made.calls, "collaborator", store)
    ELSE [run |-> [r EXCEPT !.calls = made.calls, !.notes = TRUE,
                            !.created = TRUE, !.returned = TRUE],
          store |-> made.store]

\* the release created on a dry run too
publishStepAlways(r, store, clock, failAt) ==
    released([r EXCEPT !.releaseNotes = generateReleaseNotes(r.a, r.newCommits)],
             createGitHubRelease(r.a, r.newVersion, store, clock,
                                 r.calls, failAt), store)

\* lines 74-80: the dry-run return, or the release and the return
publishStep(r, store, clock, failAt) ==
    IF r.dryRun
    THEN [run |-> [r EXCEPT !.returned = TRUE], store |-> store]
    ELSE released([r EXCEPT !.releaseNotes =
                                 generateReleaseNotes(r.a, r.newCommits)],
                  createGitHubRelease(r.a, r.newVersion, store, clock,
                                      r.calls, failAt), store)

\* lines 68-72: the decision and the nil return
decided(r, decision, store, clock, failAt) ==
    IF decision.panic
    THEN panicked([r EXCEPT !.bump = decision.bump], r.calls, "prerelease",
                  store)
    ELSE IF decision.version = NoVersion
    THEN [run |-> [r EXCEPT !.bump = decision.bump, !.returned = TRUE],
          store |-> store]
    ELSE publishStep([r EXCEPT !.bump = decision.bump,
                               !.newVersion = decision.version],
                     store, clock, failAt)

\* line 66: the records of the component
filtered(r, records, store, clock, failAt) ==
    decided([r EXCEPT !.componentConventionalCommits = records],
            newVersion(r.a, r.existingVersion, records,
                       r.firstVersionCreated),
            store, clock, failAt)

\* line 65 after getNewCommits
listedCommits(r, listed, store, clock, failAt) ==
    IF listed.panic
    THEN panicked(r, listed.calls, "collaborator", store)
    ELSE filtered([r EXCEPT !.calls = listed.calls,
                            !.newCommits = listed.items],
                  convertAndFilterCommitsForComponent(r.a.component,
                                                      listed.items),
                  store, clock, failAt)

\* lines 62-65 after getCurrentChangeTime
currentChange(r, previousChangeTime, current, store, history, clock, failAt) ==
    IF current.panic
    THEN panicked(r, current.calls, "collaborator", store)
    ELSE listedCommits([r EXCEPT !.calls = current.calls,
                                 !.since = sinceOf(previousChangeTime),
                                 !.until = current.time + Millisecond],
                       getNewCommits(history, previousChangeTime,
                                     current.time + Millisecond,
                                     current.calls, failAt),
                       store, clock, failAt)

\* line 61 after getPreviousChangeTime
previousChange(r, previous, store, history, clock, failAt) ==
    IF previous.panic
    THEN panicked(r, previous.calls, "collaborator", store)
    ELSE currentChange(r, previous.time,
                       getCurrentChangeTime(r.a, history, previous.calls,
                                            failAt),
                       store, history, clock, failAt)

\* line 59 after existingVersionOrNew
existingVersion(r, existing, store, history, clock, failAt) ==
    IF existing.panic
    THEN panicked(r, r.calls, "semver", store)
    ELSE previousChange([r EXCEPT !.firstVersionCreated =
                                      existing.firstVersion,
                                  !.existingVersion = existing.version],
                        getPreviousChangeTime(r.existingReleases, history,
                                              r.calls, failAt),
                        store, history, clock, failAt)

\* line 58 after getAllReleases; sorted is the order sort.Slice leaves the
\* matching releases in
existingReleases(r, listed, sorted, store, history, clock, failAt) ==
    IF listed.panic
    THEN panicked(r, listed.calls, "collaborator", store)
    ELSE existingVersion([r EXCEPT !.calls = listed.calls,
                                   !.existingReleases = sorted],
                         existingVersionOrNew(r.a.component, sorted,
                                              r.a.initialVersion),
                         store, history, clock, failAt)

\* VersioningAction.GenerateVersion
GenerateVersion(a, dryRun, store, history, clock, sorted, failAt) ==
    existingReleases(blankRun(a, dryRun), getAllReleases(store, <<>>, failAt),
                     sorted, store, history, clock, failAt)

----------------------------------------------------------------------------
(* cmd/main.go                                                             *)

\* isDryRun
isDryRun(input) ==
    EqualFold(input, <<"y","e","s">>) \/ EqualFold(input, <<"t","r","u","e">>)

\* the lines main appends to the GITHUB_OUTPUT file, as tokens: a key, "=",
\* the characters of the value, and "\n" where the code writes a newline
outputOf(r) ==
    IF r.newVersion = NoVersion
    THEN <<"new_version_created", "=", "no", "\n">>
           \o <<"version", "=", "0", ".", "0", ".", "0", "-",
                "n", "o", "n", "e", "\n">>
           \o <<"prerelease", "=", "no", "\n">>
    ELSE <<"new_version_created", "=", "yes", "\n">>
           \o <<"version", "=">> \o VersionString(r.newVersion)
           \o (IF r.newVersion.pre = <<>>
               THEN <<"prerelease", "=", "no", "\n">>
               ELSE <<"prerelease", "=", "yes", "\n">>)

----------------------------------------------------------------------------
(* The inputs of the model                                                 *)

\* commit hashes, one per position in the history
ShaOf(i) == <<Digits[i + 1], "b", "c", "d", "e", "f", "0", "9">>

\* a revision given by an abbreviated hash
ShortOf(i) == SubSeq(ShaOf(i), 1, 3)

defaultBranch == "main"

fixA      == <<"fix", "(", "a", ")", ":", " ", "x">>
fixUpperA == <<"fix", "(", "A", ")", ":", " ", "x">>
featA     == <<"feat", "(", "a", ")", ":", " ", "x">>
breakA    == <<"feat", "(", "a", ")", "!", ":", " ", "x">>
footerA   == <<"fix", "(", "a", ")", ":", " ", "x", "\n\n",
               "BREAKING CHANGE", ":", " ", "y">>
choreA    == <<"chore", "(", "a", ")", ":", " ", "x">>
refactorA == <<"refactor", "(", "a", ")", ":", " ", "x">>
featB     == <<"feat", "(", "b", ")", ":", " ", "x">>
featAB    == <<"feat", "(", "a", "-", "b", ")", ":", " ", "x">>
fixNone   == <<"fix", ":", " ", "x">>
freeForm  == <<"Merge", " ", "x">>

v100      == <<"1", ".", "0", ".", "0">>
v100rc    == <<"1", ".", "0", ".", "0", "-", "r", "c">>
vBad      == <<"o", "n", "e">>

compA     == <<"a">>
compUpper == <<"A">>
compAB    == <<"a", "-", "b">>

no        == <<"n", "o">>
yes       == <<"Y", "e", "s">>
true      == <<"t", "r", "u", "e">>

----------------------------------------------------------------------------
(* The actions                                                             *)

idle == blankRun([component |-> <<>>, branch |-> "", revision |-> <<>>,
                  initialVersion |-> <<>>, defaultBranch |-> ""], FALSE)

\* a commit is pushed to the branch; its committer time is the current
\* second or the one before
Push(messages) ==
    /\ Len(commits) < MaxCommits
    /\ \E message \in messages, time \in {now - 1, now} :
          /\ time >= 1
          /\ commits' = Append(commits,
                 [sha |-> ShaOf(Len(commits) + 1), time |-> time,
                  message |-> message])
    /\ UNCHANGED <<releases, now, run, output>>

\* a second passes
Tick ==
    /\ now < MaxTime
    /\ now' = now + 1
    /\ UNCHANGED <<releases, commits, run, output>>

\* the end of main: the outputs are written when the output file exists
\* and GenerateVersion returned
finished(done, exists) ==
    /\ run' = done.run
    /\ releases' = done.store
    /\ output' = IF done.run.returned /\ exists
                 THEN outputOf(done.run) ELSE <<>>

\* one invocation of the action: main reads its configuration and runs
\* GenerateVersion
main(components, branches, revisions, initialVersions, dryRuns, failures, outputExists) ==
    /\ Len(releases) < MaxReleases
    /\ \E component \in components, branch \in branches,
          revision \in revisions, initialVersion \in initialVersions,
          dryRun \in dryRuns, failAt \in failures, exists \in outputExists :
        \E sorted \in filterAndSortReleasesForComponent(component, releases) :
          finished(GenerateVersion([component |-> component,
                                    branch |-> branch,
                                    revision |-> revision,
                                    initialVersion |-> initialVersion,
                                    defaultBranch |-> defaultBranch],
                                   isDryRun(dryRun), releases, commits, now,
                                   sorted, failAt),
                   exists)
    /\ UNCHANGED <<commits, now>>

----------------------------------------------------------------------------
(* The system: commits are pushed, time passes, the action is invoked for  *)
(* one component or another at the head of the branch                      *)

Init ==
    /\ releases = <<>>
    /\ commits = <<>>
    /\ now = 1
    /\ run = idle
    /\ output = <<>>

Invoke ==
    /\ commits # <<>>
    /\ main({compA, compAB}, {"main", "feature-1"}, {ShaOf(Len(commits))},
            {v100}, {no}, {0}, {TRUE})

Next ==
    \/ Push({fixA, featAB})
    \/ Tick
    \/ Invoke

Spec == Init /\ [][Next]_vars

----------------------------------------------------------------------------
(* One invocation on a drawn repository: a first commit, released or not   *)
(* as a-1.2.3, and up to MaxWindow commits after it, one a second          *)

\* every sequence of at most n elements of S
SeqsUpTo(S, n) == UNION {[1..k -> S] : k \in 0..n}

DecideMessages ==
    {fixA, fixUpperA, featA, breakA, footerA, choreA, refactorA, featB,
     fixNone, freeForm}

priorRelease ==
    [tag |-> <<"a", "-", "1", ".", "2", ".", "3">>, target |-> ShaOf(1),
     prerelease |-> FALSE, publishedAt |-> 1]

prereleaseRelease ==
    [tag |-> <<"a", "-", "1", ".", "2", ".", "3", "-">> \o SubSeq(ShaOf(1), 1, 7),
     target |-> ShaOf(1), prerelease |-> TRUE, publishedAt |-> 1]

historyOf(window) ==
    [i \in 1..(Len(window) + 1) |->
        [sha |-> ShaOf(i), time |-> i,
         message |-> IF i = 1 THEN choreA ELSE window[i - 1]]]

InitDecide ==
    /\ releases \in {<<>>, <<priorRelease>>, <<prereleaseRelease>>}
    /\ \E window \in SeqsUpTo(DecideMessages, MaxWindow) :
          /\ commits = historyOf(window)
          /\ now = Len(window) + 1
    /\ run = idle
    /\ output = <<>>

Decide ==
    /\ run = idle
    /\ main({compA, compUpper}, {"main", "Main"}, {ShaOf(Len(commits))},
            {v100, v100rc}, {no, yes}, {0}, {TRUE})

NextDecide == Decide

SpecDecide == InitDecide /\ [][NextDecide]_vars

----------------------------------------------------------------------------
(* One invocation in which a collaborator call, the version string or the  *)
(* revision may be bad                                                     *)

foreignRelease ==
    [tag |-> <<"a", "-", "b", "-", "1", ".", "0", ".", "0">>,
     target |-> ShaOf(1), prerelease |-> FALSE, publishedAt |-> 1]

InitFailures ==
    /\ releases \in {<<>>, <<priorRelease>>, <<foreignRelease>>}
    /\ \E window \in SeqsUpTo({fixA}, MaxWindow) :
          /\ commits = historyOf(window)
          /\ now = Len(window) + 1
    /\ run = idle
    /\ output = <<>>

Attempt ==
    /\ run = idle
    /\ main({compA}, {"main", "feature-1"},
            {ShaOf(Len(commits)), ShortOf(Len(commits))},
            {v100, vBad}, {no, yes, true}, 0..MaxCalls, {TRUE, FALSE})

NextFailures == Attempt

SpecFailures == InitFailures /\ [][NextFailures]_vars

----------------------------------------------------------------------------
(* One invocation on a store that holds one release whose tag was written  *)
(* by hand or by the action: a prefix in either letter case and a text     *)
(* after it                                                                 *)

TagPrefixes == {<<"a", "-">>, <<"A", "-">>}

TagVersions ==
    {<<"1", ".", "2", ".", "3">>, <<"v", "1", ".", "2", ".", "3">>,
     <<"1", ".", "2">>, <<"1", ".", "2", ".", "3", "-", "R", "C">>,
     <<"b", "-", "1", ".", "0", ".", "0">>, <<"x">>}

taggedRelease(tag) ==
    [tag |-> tag, target |-> ShaOf(1), prerelease |-> FALSE,
     publishedAt |-> 1]

InitTags ==
    /\ \E prefix \in TagPrefixes, version \in TagVersions :
          releases = <<taggedRelease(prefix \o version)>>
    /\ \E window \in SeqsUpTo({fixA, featA}, MaxWindow) :
          /\ commits = historyOf(window)
          /\ now = Len(window) + 1
    /\ run = idle
    /\ output = <<>>

Resolve ==
    /\ run = idle
    /\ main({compA, compUpper}, {"main"}, {ShaOf(Len(commits))}, {v100},
            {no, yes}, {0}, {TRUE})

NextTags == Resolve

SpecTags == InitTags /\ [][NextTags]_vars

----------------------------------------------------------------------------
(* What the claims speak of                                                *)

\* the invocation ran to its return
Returned == run # idle /\ run.fatal = "" /\ run.returned

\* the invocation returned a version
Decided == Returned /\ run.newVersion # NoVersion

Triple(v) == <<v.major, v.minor, v.patch>>

AnyBreaking(cs) ==
    \E i \in 1..Len(cs) : cs[i].exclamation \/ cs[i].breakingFooter

AnyOfType(cs, type) == \E i \in 1..Len(cs) : cs[i].type = type

\* the numbers after an increment of the given level
Incremented(v, level) ==
    IF level = "MAJOR" THEN <<v.major + 1, 0, 0>>
    ELSE IF level = "MINOR" THEN <<v.major, v.minor + 1, 0>>
    ELSE IF v.pre = <<>> THEN <<v.major, v.minor, v.patch + 1>>
    ELSE <<v.major, v.minor, v.patch>>

\* the bump level the priority rule gives for a list of records
LevelOf(cs) ==
    IF AnyBreaking(cs) THEN "MAJOR"
    ELSE IF AnyOfType(cs, "feat") THEN "MINOR"
    ELSE IF AnyOfType(cs, "fix") THEN "PATCH"
    ELSE "NONE"

----------------------------------------------------------------------------
\* C1: with a previous release, the bump is MAJOR if any record of the
\* component is breaking, else MINOR if any is a feature, else PATCH if any
\* is a fix, whatever the number and order of the records; the returned
\* version is the previous one incremented at that level.
C1_BumpPriority ==
    (Returned /\ ~run.firstVersionCreated) =>
        LET cs == run.componentConventionalCommits
        IN  /\ AnyBreaking(cs) => run.bump = "MAJOR"
            /\ (~AnyBreaking(cs) /\ AnyOfType(cs, "feat")) => run.bump = "MINOR"
            /\ (~AnyBreaking(cs) /\ ~AnyOfType(cs, "feat")
                  /\ AnyOfType(cs, "fix")) => run.bump = "PATCH"
            /\ run.bump \in {"MAJOR", "MINOR", "PATCH"} =>
                  /\ run.newVersion # NoVersion
                  /\ Triple(run.newVersion)
                       = Incremented(run.existingVersion, run.bump)

\* a fix and a feature come before the breaking record, and the bump is MAJOR
C1_Witness ==
    /\ Returned /\ ~run.firstVersionCreated
    /\ Len(run.componentConventionalCommits) = 2
    /\ run.componentConventionalCommits[1].type = "fix"
    /\ ~IsBreakingChange(run.componentConventionalCommits[1])
    /\ IsBreakingChange(run.componentConventionalCommits[2])
    /\ run.bump = "MAJOR"
    /\ Triple(run.newVersion) = <<2, 0, 0>>

C3_FirstCreation ==
    (Returned /\ run.existingReleases = <<>>) =>
        /\ run.firstVersionCreated
        /\ run.bump = "FIRST"
        /\ run.newVersion # NoVersion
        /\ Triple(run.newVersion)
             = Triple(NewVersion(run.a.initialVersion).version)
        /\ run.existingVersion = NewVersion(run.a.initialVersion).version

\* a first creation whose window holds a breaking change of the component
C3_Witness ==
    /\ Returned /\ run.existingReleases = <<>>
    /\ AnyBreaking(run.componentConventionalCommits)
    /\ Triple(run.newVersion) = <<1, 0, 0>>
    /\ run.created

----------------------------------------------------------------------------
\* C4 as claimed: a returned version has a prerelease label exactly when
\* the branch differs from the default branch; the label is then the first
\* 7 characters of the revision, and the numbers are those decided on the
\* default branch.
C4_PrereleaseIffBranch ==
    Decided =>
        /\ (run.newVersion.pre # <<>>) <=> (run.a.branch # run.a.defaultBranch)
        /\ run.a.branch # run.a.defaultBranch =>
              run.newVersion.pre = SubSeq(run.a.revision, 1, 7)
        /\ Triple(run.newVersion)
             = Triple(newVersion([run.a EXCEPT !.branch = run.a.defaultBranch],
                                 run.existingVersion,
                                 run.componentConventionalCommits,
                                 run.firstVersionCreated).version)

\* C4 amended: on a branch other than the default the label of a returned
\* version is the first 7 characters of the revision; on the default branch
\* a bumped version has no label and a first version keeps the label of the
\* configured initial version; the numbers are those decided on the default
\* branch.
C4_PrereleaseLabel ==
    Decided =>
        /\ run.a.branch # run.a.defaultBranch =>
              run.newVersion.pre = SubSeq(run.a.revision, 1, 7)
        /\ (run.a.branch = run.a.defaultBranch /\ ~run.firstVersionCreated) =>
              run.newVersion.pre = <<>>
        /\ (run.a.branch = run.a.defaultBranch /\ run.firstVersionCreated) =>
              run.newVersion.pre = NewVersion(run.a.initialVersion).version.pre
        /\ Triple(run.newVersion)
             = Triple(newVersion([run.a EXCEPT !.branch = run.a.defaultBranch],
                                 run.existingVersion,
                                 run.componentConventionalCommits,
                                 run.firstVersionCreated).version)

\* a fix on the branch Main, which differs from main by case only: the
\* version is 1.2.4 with the shortened revision as its label
C4_Witness ==
    /\ Decided /\ run.a.branch = "Main" /\ run.a.defaultBranch = "main"
    /\ run.bump = "PATCH"
    /\ Triple(run.newVersion) = <<1, 2, 4>>
    /\ Len(run.newVersion.pre) = 7
    /\ run.newVersion.pre = SubSeq(run.a.revision, 1, 7)
    /\ Len(run.a.revision) > 7

----------------------------------------------------------------------------
\* the commit classifies, has a scope, and the scope is the component up to
\* letter case
Keeps(component, commit) ==
    LET parsed == Parse(commit.message)
    IN  /\ parsed.ok
        /\ parsed.commit.hasScope
        /\ ToLower(parsed.commit.scope) = ToLower(component)

\* C5: the records kept for the component are those of the commits that
\* classify with a scope equal to the component up to letter case, in the
\* order of the input; the other commits are dropped without an error and
\* without a part in the bump level.
C5_ScopeFilter ==
    run # idle =>
        LET cs   == run.newCommits
            out  == run.componentConventionalCommits
            kept == {i \in 1..Len(cs) : Keeps(run.a.component, cs[i])}
        IN  /\ run.fatal = ""
            /\ Len(out) = Cardinality(kept)
            /\ \E f \in [1..Len(out) -> kept] :
                  /\ \A j, k \in 1..Len(out) : j < k => f[j] < f[k]
                  /\ \A j \in 1..Len(out) : out[j] = Parse(cs[f[j]].message).commit
                  /\ ~run.firstVersionCreated =>
                        run.bump = LevelOf([j \in 1..Len(out) |->
                                              Parse(cs[f[j]].message).commit])

\* a fix scoped A is kept for the component a, a commit that does not
\* classify and a fix without a scope are dropped, and the bump is PATCH
C5_Witness ==
    /\ Returned /\ run.a.component = compA
    /\ \E i \in 1..Len(run.newCommits) : run.newCommits[i].message = fixUpperA
    /\ \E i \in 1..Len(run.newCommits) :
          run.newCommits[i].message \in {freeForm, fixNone, featB}
    /\ Len(run.componentConventionalCommits) = 1
    /\ run.componentConventionalCommits[1].scope = <<"A">>
    /\ run.bump = "PATCH"

----------------------------------------------------------------------------
\* C6 as claimed: with a previous release, a refactor of the component and
\* no breaking change, feature or fix, a version with the patch number
\* incremented is returned.
C6_RefactorPatch ==
    (Returned /\ ~run.firstVersionCreated
       /\ AnyOfType(run.componentConventionalCommits, "refactor")
       /\ LevelOf(run.componentConventionalCommits) = "NONE") =>
        /\ run.newVersion # NoVersion
        /\ Triple(run.newVersion) = Incremented(run.existingVersion, "PATCH")

----------------------------------------------------------------------------
\* the lines of a text that end with a newline, without the newline
RECURSIVE TerminatedLines(_)
TerminatedLines(text) ==
    LET cut == Index(text, "\n")
    IN  IF cut = 0 THEN <<>>
        ELSE <<SubSeq(text, 1, cut - 1)>> \o TerminatedLines(Drop(text, cut))

\* what follows the last newline
RECURSIVE Unterminated(_)
Unterminated(text) ==
    LET cut == Index(text, "\n")
    IN  IF cut = 0 THEN text ELSE Unterminated(Drop(text, cut))

\* C9 as claimed: the output is three lines key=value, each ended by a
\* newline: new_version_created, version and prerelease; the value of
\* version is the version string, or 0.0.0-none when nothing is decided.
C9_OutputLines ==
    Returned =>
        LET ls == TerminatedLines(output)
        IN  /\ Unterminated(output) = <<>>
            /\ Len(ls) = 3
            /\ \A i \in 1..3 : Len(ls[i]) >= 3 /\ ls[i][2] = "="
            /\ ls[1][1] = "new_version_created"
            /\ Drop(ls[1], 2)
                 = IF run.newVersion = NoVersion THEN <<"no">> ELSE <<"yes">>
            /\ ls[2][1] = "version"
            /\ Drop(ls[2], 2)
                 = IF run.newVersion = NoVersion
                   THEN <<"0", ".", "0", ".", "0", "-", "n", "o", "n", "e">>
                   ELSE VersionString(run.newVersion)
            /\ ls[3][1] = "prerelease"
            /\ Drop(ls[3], 2)
                 = IF run.newVersion # NoVersion /\ run.newVersion.pre # <<>>
                   THEN <<"yes">> ELSE <<"no">>

----------------------------------------------------------------------------
\* the history as the last invocation saw it: up to its revision, the head
\* of the branch at that moment
PositionOf(revision) ==
    CHOOSE i \in 1..Len(commits) : commits[i].sha = revision

HistoryOfRun == SubSeq(commits, 1, PositionOf(run.a.revision))

\* the store as the last invocation found it
StoreOfRun ==
    IF run.created THEN SubSeq(releases, 1, Len(releases) - 1) ELSE releases

\* the tag is lower(component) + "-" + a version
IsReleaseOf(component, release) ==
    /\ HasPrefix(release.tag, ToLower(component) \o <<"-">>)
    /\ NewVersion(Drop(release.tag, Len(component) + 1)).ok

RECURSIVE WithoutReleasesOf(_, _)
WithoutReleasesOf(component, store) ==
    IF store = <<>> THEN <<>>
    ELSE IF IsReleaseOf(component, store[1])
         THEN WithoutReleasesOf(component, Tail(store))
         ELSE <<store[1]>> \o WithoutReleasesOf(component, Tail(store))

\* the same commits, those scoped to the component made plain ones
WithoutCommitsOf(component, history) ==
    [i \in 1..Len(history) |->
        IF Keeps(component, history[i])
        THEN [history[i] EXCEPT !.message = freeForm]
        ELSE history[i]]

\* the outcome of an invocation, as far as C7 speaks of it
SameDecision(r, twin) ==
    /\ twin.fatal = r.fatal
    /\ twin.returned = r.returned
    /\ twin.newVersion = r.newVersion
    /\ twin.bump = r.bump
    /\ twin.since = r.since
    /\ twin.until = r.until
    /\ (twin.existingReleases = <<>>) = (r.existingReleases = <<>>)
    /\ r.existingReleases # <<>> =>
          twin.existingReleases[1] = r.existingReleases[1]

\* C7 as claimed: the outcome of an invocation for a component is the one
\* it would have without the releases and the commits of any other
\* component: the same latest release, window, bump level and decision.
C7_SeparateComponents ==
    run # idle =>
        \A other \in {compA, compAB} :
            ~EqualFold(other, run.a.component) =>
                LET store   == WithoutReleasesOf(other, StoreOfRun)
                    history == WithoutCommitsOf(other, HistoryOfRun)
                IN  \E sorted \in filterAndSortReleasesForComponent(
                                      run.a.component, store) :
                        SameDecision(run,
                            GenerateVersion(run.a, run.dryRun, store, history,
                                            now, sorted, 0).run)

----------------------------------------------------------------------------
ReadCalls == {"ListReleases", "GetCommit", "ListCommits"}

\* the invocation r changed the store only by adding its release, having
\* made its calls in order; wet is the run that is not dry
InvocationOK(r, n, wet) ==
    /\ \A i \in 1..n : r.calls[i] = "CreateRelease" =>
          /\ i = n
          /\ ~r.dryRun
          /\ r.newVersion # NoVersion
          /\ \A j \in 1..(i - 1) : r.calls[j] \in ReadCalls
          /\ \A name \in ReadCalls : \E j \in 1..(i - 1) : r.calls[j] = name
    /\ releases' # releases =>
          /\ r.created /\ r.fatal = "" /\ r.returned
          /\ n > 0 /\ r.calls[n] = "CreateRelease"
          /\ Len(releases') = Len(releases) + 1
          /\ SubSeq(releases', 1, Len(releases)) = releases
          /\ releases'[Len(releases')].target = r.a.revision
    /\ (r.dryRun \/ r.newVersion = NoVersion \/ r.fatal # "") =>
          releases' = releases
    /\ (r.dryRun /\ r.returned) =>
          /\ wet.newVersion = r.newVersion
          /\ wet.returned \/ wet.fatal = "collaborator"

\* C8: an invocation asks for a release at most once, as its last call,
\* after the releases, the commit times and the commits were read, a
\* version was decided and the run is not a dry run; on a dry run, on no
\* change and on any fatal condition the store is left as it was; a dry run
\* returns the version the run that is not dry returns.
C8_Invocation ==
    run' # run =>
        InvocationOK(run', Len(run'.calls),
                     GenerateVersion(run'.a, FALSE, releases, commits, now,
                                     run'.existingReleases, 0).run)

C8_ReleaseLast == [][C8_Invocation]_vars

\* a run that read everything, decided a version and created its release
C8_Witness ==
    /\ Returned /\ run.created /\ ~run.dryRun
    /\ run.calls = <<"ListReleases", "ListReleases", "GetCommit", "GetCommit",
                     "ListCommits", "ListCommits", "CreateRelease">>
    /\ Len(releases) = 2

----------------------------------------------------------------------------
TimeOf(revision) == commits[PositionOf(revision)].time

\* C10: the commits of an invocation are those of the branch with a
\* committer time in [since, until): until is the time of the revision plus
\* a millisecond, since is the epoch without a release of the component and
\* else the time of the target of its latest release plus a second. That
\* target is never among the commits, and a run at that target finds no
\* commits and decides nothing.
C10_Window ==
    (run # idle /\ run.bump # "") =>
        LET first  == run.existingReleases = <<>>
            since  == IF first THEN 0
                      ELSE TimeOf(run.existingReleases[1].target) * 1000 + 1000
            until  == TimeOf(run.a.revision) * 1000 + 1
            inside == {i \in 1..Len(HistoryOfRun) :
                          /\ since <= commits[i].time * 1000
                          /\ commits[i].time * 1000 < until}
        IN  /\ run.since = since
            /\ run.until = until
            /\ {run.newCommits[i] : i \in 1..Len(run.newCommits)}
                 = {commits[i] : i \in inside}
            /\ Len(run.newCommits) = Cardinality(inside)
            /\ ~first =>
                  \A i \in 1..Len(run.newCommits) :
                      run.newCommits[i].sha # run.existingReleases[1].target
            /\ (~first /\ run.a.revision = run.existingReleases[1].target) =>
                  /\ run.newCommits = <<>>
                  /\ run.fatal = "" /\ run.returned
                  /\ run.newVersion = NoVersion
                  /\ ~run.created

\* a run at the target of the latest release, which an earlier run created
\* with a commit in its window: no commits, nothing decided
C10_Witness ==
    /\ Returned /\ run.existingReleases # <<>>
    /\ run.a.revision = run.existingReleases[1].target
    /\ Len(commits) >= 2
    /\ run.a.revision = commits[Len(commits)].sha
    /\ run.newCommits = <<>>
    /\ run.newVersion = NoVersion
    /\ run.since > run.until

----------------------------------------------------------------------------
\* the place in the history of the target of the release the invocation r
\* took as latest; 0 without a release
TargetPosition(r) ==
    IF r.existingReleases = <<>> THEN 0
    ELSE PositionOf(r.existingReleases[1].target)

\* the commit at place i of the history is among the commits r listed
InWindow(r, i) ==
    \E j \in 1..Len(r.newCommits) : r.newCommits[j].sha = commits[i].sha

\* C11 as claimed: every commit up to the revision of the run that is
\* neither the target of the latest release of the component nor one of its
\* ancestors is among the commits of the run, the commit of the revision
\* itself included, also when it was committed within the second of the
\* target or carries an older committer time.
C11_NoCommitLost ==
    (run # idle /\ run.fatal = "" /\ run.bump # "") =>
        \A i \in 1..PositionOf(run.a.revision) :
            i > TargetPosition(run) => InWindow(run, i)

----------------------------------------------------------------------------
\* (major, minor, patch) of v is below that of w
TripleBelow(v, w) ==
    \/ v.major < w.major
    \/ v.major = w.major /\ v.minor < w.minor
    \/ v.major = w.major /\ v.minor = w.minor /\ v.patch < w.patch

\* C12 as claimed: the tags of the store are all different, the release a
\* run takes as latest has the greatest publish time of the releases of the
\* component, and a version created by a bump is above the version of that
\* release in (major, minor, patch), also when that release is a prerelease
\* or shares its publish time with another.
C12_StrictlyGreater ==
    /\ \A i, j \in 1..Len(releases) :
          releases[i].tag = releases[j].tag => i = j
    /\ run # idle =>
          \A i \in 1..Len(run.existingReleases) :
              run.existingReleases[1].publishedAt
                  >= run.existingReleases[i].publishedAt
    /\ (Returned /\ run.created /\ run.bump \in {"MAJOR", "MINOR", "PATCH"}) =>
          TripleBelow(run.existingVersion, run.newVersion)

----------------------------------------------------------------------------
\* the short hashes of the changelog entries of a text, in the order of
\* the text
RECURSIVE EntriesIn(_)
EntriesIn(text) ==
    IF text = <<>> THEN <<>>
    ELSE IF text[1] = "* ['"
         THEN <<SubSeq(text, 2, 8)>> \o EntriesIn(Drop(text, 8))
         ELSE EntriesIn(Tail(text))

\* what follows a heading in the notes, up to the line break of the
\* template after it; nothing when the heading is not there
SectionUnder(notes, heading) ==
    LET at   == Index(notes, heading)
        rest == Drop(notes, at)
    IN  IF at = 0 THEN <<>> ELSE SubSeq(rest, 1, Index(rest, "\n") - 1)

\* the three buckets: heading, caption and the commits that belong there
Buckets ==
    {[name |-> "breaking", heading |-> breakingHeading,
      caption |-> breakingCaption],
     [name |-> "features", heading |-> featuresHeading,
      caption |-> featuresCaption],
     [name |-> "fixes", heading |-> fixesHeading, caption |-> fixesCaption]}

Belongs(c, name) ==
    \/ name = "breaking" /\ (c.exclamation \/ c.breakingFooter)
    \/ name = "features" /\ c.type = "feat"
    \/ name = "fixes" /\ c.type = "fix"

\* the short hashes of the commits of the component that belong to a
\* bucket, in the order of the commits
RECURSIVE ExpectedEntries(_, _, _)
ExpectedEntries(component, cs, name) ==
    IF cs = <<>> THEN <<>>
    ELSE (IF Keeps(component, cs[1])
               /\ Belongs(Parse(cs[1].message).commit, name)
          THEN <<SubSeq(cs[1].sha, 1, 7)>> ELSE <<>>)
           \o ExpectedEntries(component, Tail(cs), name)

\* C13: the notes of a run hold, under each of Breaking Changes, Features
\* and Fixes, one entry for each commit of the window that classifies with
\* the scope of the component (up to letter case) and is breaking, a
\* feature, a fix respectively, in the order of the commits and nothing
\* else; a heading and its caption are in the notes if and only if the
\* bucket has an entry.
C13_Changelog ==
    (run # idle /\ run.notes) =>
        /\ \A b \in Buckets :
              LET expected == ExpectedEntries(run.a.component,
                                              run.newCommits, b.name)
                  section  == SectionUnder(run.releaseNotes, b.heading)
              IN  /\ EntriesIn(section) = expected
                  /\ (Index(run.releaseNotes, b.heading) # 0)
                        <=> (expected # <<>>)
                  /\ (Index(run.releaseNotes, b.caption) # 0)
                        <=> (expected # <<>>)
                  /\ expected # <<>> => section[1] = b.caption
        /\ EntriesIn(run.releaseNotes)
             = ExpectedEntries(run.a.component, run.newCommits, "breaking")
                 \o ExpectedEntries(run.a.component, run.newCommits, "features")
                 \o ExpectedEntries(run.a.component, run.newCommits, "fixes")

\* a release whose window held a chore, a fix and a breaking feature of
\* the component: the feature is under Breaking Changes and under Features,
\* the fix under Fixes, the chore nowhere
C13_Witness ==
    /\ Returned /\ run.created
    /\ Len(run.newCommits) = 3
    /\ \A i \in 1..3 : Keeps(run.a.component, run.newCommits[i])
    /\ Len(EntriesIn(run.releaseNotes)) = 3
    /\ EntriesIn(SectionUnder(run.releaseNotes, breakingHeading))
         = EntriesIn(SectionUnder(run.releaseNotes, featuresHeading))
    /\ Len(EntriesIn(SectionUnder(run.releaseNotes, fixesHeading))) = 1

----------------------------------------------------------------------------
\* C14 as claimed: the version resolved from the tag of the release a run
\* takes as latest is the one parsed from the text of the tag after the
\* first Len(component) + 1 characters, whatever the letter case of the tag
\* and of the component, and the run aborts on the version only when that
\* text is not a semantic version; the prefix put by prefixWithComponent is
\* the prefix taken off.
C14_FilterStripAgree ==
    /\ (run # idle /\ run.existingReleases # <<>>) =>
          LET remainder == Drop(run.existingReleases[1].tag,
                                Len(run.a.component) + 1)
              parsed    == NewVersion(remainder)
          IN  /\ (run.fatal = "semver") <=> ~parsed.ok
              /\ parsed.ok => run.existingVersion = parsed.version
    /\ \A c \in {compA, compUpper, compAB}, v \in TagVersions :
          TrimPrefix(prefixWithComponent(c, v), getComponentPrefix(c)) = v

====
